---------------------------- MODULE Spec2Model ----------------------------
(***************************************************************************)
(* A model of the TsPath path-data parser (src/TsPath/TsPath.ts).          *)
(*                                                                         *)
(* Two revisions of the parser are kept in the source and both are         *)
(* modelled; the variable rev says which one a run executes:               *)
(*   "module" : TsPath.PathParser.Parse, lines 70-310 (function based,     *)
(*              trims the upper-cased input, TextStream caches _char);     *)
(*   "class"  : class PathParser, lines 518-767 (no trim, skips leading    *)
(*              whitespace, TextStream computes Current from _position).   *)
(*                                                                         *)
(* A string is a sequence of one-character strings.  A parse is a run of   *)
(* the state machine below: the driver's steps and every iteration of a    *)
(* repeating grammar's loop are separate steps, so that a loop that never  *)
(* ends is a run that never reaches pc = "returned" or pc = "failed".      *)
(***************************************************************************)
EXTENDS Integers, Sequences, FiniteSets, TLC

VARIABLES
    rev,        \* which revision of the parser runs
    input,      \* how the path text was built (family, intended instructions)
    path,       \* the argument of Parse
    stream,     \* the TextStream of the call (NoStream before construction)
    commands,   \* the driver's instruction list (var commands in Parse)
    local,      \* the instruction list of the repeating grammar being run
    grammar,    \* the letter of the repeating grammar being run, or Null
    dispatched, \* the grammars dispatched so far, as <<phase, letter>>
    pc,         \* where the call is
    error,      \* the kind of the exception thrown, or NoError
    context,    \* the calls made on the canvas context, in order
    first,      \* how the caller's previous call of Parse ended
    scanned,    \* what a direct call of readNumber collected and returned
    canvas,     \* what the canvas keeps from one drawPath to the next
    advanced    \* the direct calls of MoveNext: how many, and what the last returned

vars == <<rev, input, path, stream, commands, local, grammar, dispatched, pc, error,
          context, first, scanned, canvas, advanced>>

\* what a step of Parse leaves alone
callerVars == <<context, first, scanned, canvas, advanced>>

-----------------------------------------------------------------------------
(* Bounds of the model.                                                    *)

\* longest free text appended to a head in the "raw" family
MaxTail == 3
\* most points after one L in the "groups" family
MaxPoints == 3
\* most argument groups after one C or Q in the "groups" family
MaxGroups == 2
\* most instructions a repeating grammar's loop collects before the model
\* stops following it (only a loop that never ends gets there)
MaxLocal == 6
\* most items after the head in the "sequence" family
MaxItems == 3
\* longest text readNumber is called on directly
MaxScan == 4
\* most whitespace characters written before a text in the "lead" family,
\* after a letter in the "gap" family, after a text in the "revisions" families
MaxLead == 2
\* longest text of the "blank" family
MaxBlank == 3
\* longest source of a stream whose operations are called directly
MaxSource == 4
\* most direct calls of MoveNext after the one that reaches the end of the source
MaxPast == 2

-----------------------------------------------------------------------------
(* Characters and sentinels.                                               *)

Null == "null"
Undefined == "undefined"
NoError == "none"
NoStream == [kind |-> "none", source |-> <<>>, position |-> 0, char |-> Null]

_wsChars == {" ", "\t"}
_commandChars == {"M", "L", "C", "Q", "A", "Z"}
Digits == <<"0", "1", "2", "3", "4", "5", "6", "7", "8", "9">>
LowerCase == <<"a", "b", "c", "d", "e", "f", "g", "h", "i", "j", "k", "l", "m",
               "n", "o", "p", "q", "r", "s", "t", "u", "v", "w", "x", "y", "z">>
UpperCase == <<"A", "B", "C", "D", "E", "F", "G", "H", "I", "J", "K", "L", "M",
               "N", "O", "P", "Q", "R", "S", "T", "U", "V", "W", "X", "Y", "Z">>
\* the characters String.prototype.trim removes, among those modelled
TrimChars == {" ", "\t", "\n", "\r"}

isCommandCharacter(current) == current \in _commandChars
isWhitespaceCharacter(current) == current \in _wsChars
isNegativeSign(current) == current = "-"
isComma(current) == current = ","
isDecimal(current) == current = "."
isDigit(current) == \E i \in 1..Len(Digits) : Digits[i] = current

DigitValue(c) == (CHOOSE i \in 1..Len(Digits) : Digits[i] = c) - 1

\* an upper-casing that leaves every character as it is
toUpperCaseCharIdentity(c) == c

toUpperCaseChar(c) ==
    IF \E i \in 1..Len(LowerCase) : LowerCase[i] = c
    THEN UpperCase[CHOOSE i \in 1..Len(LowerCase) : LowerCase[i] = c]
    ELSE c

toUpperCase(str) == [i \in 1..Len(str) |-> toUpperCaseChar(str[i])]

RECURSIVE trimStart(_)
trimStart(str) ==
    IF str # <<>> /\ Head(str) \in TrimChars THEN trimStart(Tail(str)) ELSE str

RECURSIVE trimEnd(_)
trimEnd(str) ==
    IF str # <<>> /\ str[Len(str)] \in TrimChars
    THEN trimEnd(SubSeq(str, 1, Len(str) - 1))
    ELSE str

trim(str) == trimEnd(trimStart(str))

-----------------------------------------------------------------------------
(* Numbers.  A finite value is mant * 10^exp, kept normalised (mant has no *)
(* factor 10, and 0 is 0 * 10^0), so that equal values are equal records;   *)
(* -0 and 0 are the same value, as they are for === and for the canvas.     *)
(* The decimal strings the scanner can build are short, so the conversion   *)
(* to a double is exact up to the double's own rounding, which is the same  *)
(* for every spelling of one value.                                         *)

NaN == [nan |-> TRUE, mant |-> 0, exp |-> 0]

RECURSIVE Normalise(_, _)
Normalise(m, e) ==
    IF m = 0 THEN [nan |-> FALSE, mant |-> 0, exp |-> 0]
    ELSE IF m % 10 = 0 THEN Normalise(m \div 10, e + 1)
    ELSE [nan |-> FALSE, mant |-> m, exp |-> e]

Num(m, e) == IF m < 0
             THEN [Normalise(-m, e) EXCEPT !.mant = -@]
             ELSE Normalise(m, e)

Whole(n) == Num(n, 0)

RECURSIVE DigitsValue(_)
DigitsValue(ds) ==
    IF ds = <<>> THEN 0
    ELSE 10 * DigitsValue(SubSeq(ds, 1, Len(ds) - 1)) + DigitValue(ds[Len(ds)])

IndexOf(str, c) ==
    IF \E i \in 1..Len(str) : str[i] = c
    THEN CHOOSE i \in 1..Len(str) : str[i] = c /\ \A j \in 1..(i - 1) : str[j] # c
    ELSE 0

\* the text before the first c (all of it when there is none), and the text after it
Before(str, c) == IF IndexOf(str, c) = 0 THEN str ELSE SubSeq(str, 1, IndexOf(str, c) - 1)
After(str, c) == IF IndexOf(str, c) = 0 THEN <<>> ELSE SubSeq(str, IndexOf(str, c) + 1, Len(str))

SignedDigitsValue(text) ==
    IF text # <<>> /\ text[1] = "-" THEN -DigitsValue(Tail(text)) ELSE DigitsValue(text)

\* the value of integer part, fraction part and exponent; NaN without a digit
DecimalValue(ipart, fpart, e) ==
    IF ipart \o fpart = <<>> THEN NaN ELSE Num(DigitsValue(ipart \o fpart), e - Len(fpart))

Negate(v) == [v EXCEPT !.mant = -@]

UnsignedNumber(body) ==
    DecimalValue(Before(Before(body, "E"), "."), After(Before(body, "E"), "."),
                 SignedDigitsValue(After(body, "E")))

\* a conversion for which the empty string is not a number, as it is for parseFloat
NumberOrNaN(numStr) ==
    IF numStr = <<>> THEN NaN
    ELSE IF numStr[1] = "-" THEN Negate(UnsignedNumber(Tail(numStr)))
    ELSE UnsignedNumber(numStr)

\* Number(numStr) for the strings readNumber builds:
\*   '-'? digit* ( '.' ( digit+ ( 'E' '-'? digit+ )? )? )?
\* "" is 0; a string without any digit ("-", ".", "-.") is NaN.
Number(numStr) ==
    IF numStr = <<>> THEN Whole(0)
    ELSE IF numStr[1] = "-" THEN Negate(UnsignedNumber(Tail(numStr)))
    ELSE UnsignedNumber(numStr)

-----------------------------------------------------------------------------
(* TextStream.  kind "cached" is the module revision's stream, which keeps *)
(* the current character in _char; kind "computed" is the class revision's, *)
(* whose Current reads _source at _position.                                *)

Reset(kind, source) ==
    [kind     |-> kind,
     source   |-> source,
     position |-> 0,
     char     |-> IF kind = "cached"
                  THEN (IF Len(source) > 0 THEN source[1] ELSE Undefined)
                  ELSE Null]

TextStream(kind, source) == Reset(kind, source)

Current(s) ==
    IF s.kind = "cached" THEN s.char
    ELSE IF s.position >= Len(s.source) THEN Null
    ELSE s.source[s.position + 1]

\* a MoveNext that moves on and keeps the character it had cached
MoveNextStale(s) == [s EXCEPT !.position = @ + 1]

\* the stream after MoveNext()
MoveNext(s) ==
    [s EXCEPT !.position = @ + 1,
              !.char = IF s.kind = "cached"
                       THEN (IF s.position + 1 < Len(s.source)
                             THEN s.source[s.position + 2] ELSE Null)
                       ELSE Null]

\* a MoveNext that still answers true on reaching the end of the source
MoveNextResultOffByOne(s) == s.position + 1 <= Len(s.source)

\* the value MoveNext() returns
MoveNextResult(s) == s.position + 1 < Len(s.source)

\* stream.Current != null (loose inequality: undefined counts as null)
NotNull(c) == c # Null /\ c # Undefined

-----------------------------------------------------------------------------
(* The scanner.  A routine that can throw returns [s, v, err]: the stream   *)
(* it leaves, its value, and the kind of the exception (NoError if none).   *)

Ok(s, v) == [s |-> s, v |-> v, err |-> NoError]
Thrown(s, err) == [s |-> s, v |-> <<>>, err |-> err]

\* r, then K on r's result, unless r threw
Bind(r, K(_)) == IF r.err # NoError THEN Thrown(r.s, r.err) ELSE K(r)
\* r, then the skipping routine F on the stream r leaves
Skip(r, F(_)) == IF r.err # NoError THEN r ELSE [r EXCEPT !.s = F(r.s)]
\* numStr += ...: text put before what r reads
Cat(text, r) == IF r.err # NoError THEN r ELSE [r EXCEPT !.v = text \o @]
\* r, then the reader F, their texts joined
ThenRead(r, F(_)) == IF r.err # NoError THEN r ELSE Cat(r.v, F(r.s))

RECURSIVE skipWhitespace(_)
skipWhitespace(s) ==
    IF isWhitespaceCharacter(Current(s))
    THEN (IF MoveNextResult(s) THEN skipWhitespace(MoveNext(s)) ELSE MoveNext(s))
    ELSE s

skipComma(s) == IF isComma(Current(s)) THEN MoveNext(s) ELSE s

\* a separator that takes every comma it comes to
RECURSIVE skipArgumentSeparatorEveryComma(_)
skipArgumentSeparatorEveryComma(s) ==
    IF isComma(Current(skipWhitespace(s)))
    THEN skipArgumentSeparatorEveryComma(MoveNext(skipWhitespace(s)))
    ELSE skipWhitespace(s)

skipArgumentSeparator(s) == skipWhitespace(skipComma(skipWhitespace(s)))

RECURSIVE readNextDigits(_)
readNextDigits(s) ==
    IF isDigit(Current(s))
    THEN Cat(<<Current(s)>>, readNextDigits(MoveNext(s)))
    ELSE Ok(s, <<>>)

\* if (isNegativeSign(stream.Current)) { numStr += stream.Current; stream.MoveNext(); }
readSign(s) ==
    IF isNegativeSign(Current(s)) THEN Ok(MoveNext(s), <<"-">>) ELSE Ok(s, <<>>)

\* if (isDigit(stream.Current)) { numStr += readNextDigits(stream); }
readIntegerPart(s) == IF isDigit(Current(s)) THEN readNextDigits(s) ELSE Ok(s, <<>>)

\* an exponent whose digits may be missing
readExponentDigitsLenient(s) == readNextDigits(s)

\* if (!isDigit(stream.Current)) throw "Invalid number"; numStr += readNextDigits(stream);
readExponentDigits(s) ==
    IF ~isDigit(Current(s)) THEN Thrown(s, "InvalidNumber") ELSE readNextDigits(s)

\* if (stream.Current === "E") { ... }
readExponent(s) ==
    IF Current(s) = "E"
    THEN Cat(<<"E">>, ThenRead(readSign(MoveNext(s)), readExponentDigits))
    ELSE Ok(s, <<>>)

\* if (isDigit(stream.Current)) { numStr += readNextDigits(stream); exponent }
readFractionDigits(s) ==
    IF isDigit(Current(s)) THEN ThenRead(readNextDigits(s), readExponent) ELSE Ok(s, <<>>)

\* if (isDecimal(stream.Current)) { ... }
readFraction(s) ==
    IF isDecimal(Current(s)) THEN Cat(<<".">>, readFractionDigits(MoveNext(s))) ELSE Ok(s, <<>>)

\* the text readNumber collects in numStr
readNumberText(s) == ThenRead(ThenRead(readSign(s), readIntegerPart), readFraction)

\* return Number(numStr)
Converted(r) == IF r.err # NoError THEN r ELSE [r EXCEPT !.v = Number(@)]

readNumber(s) == Converted(readNumberText(s))

readNumberAndSkipSeparator(s) == Skip(readNumber(s), skipArgumentSeparator)

readNumberAndSkipWhitespace(s) == Skip(readNumber(s), skipWhitespace)

Point(x, y) == <<x, y>>

readPoint(s) ==
    Bind(readNumberAndSkipSeparator(s), LAMBDA x :
        Bind(readNumber(x.s), LAMBDA y : Ok(y.s, Point(x.v, y.v))))

readPointAndSkipSeparator(s) == Skip(readPoint(s), skipArgumentSeparator)

readPointAndSkipWhitespace(s) == Skip(readPoint(s), skipWhitespace)

-----------------------------------------------------------------------------
(* Instructions.  CommandFactory builds closures over a canvas context; an  *)
(* instruction here is the call the closure makes.  from and to are the     *)
(* stream positions between which its arguments were read.                  *)

Instruction(op, rule, args, ccw) ==
    [op |-> op, rule |-> rule, args |-> args, ccw |-> ccw]

createFillRuleCommand(fillRule) == Instruction("SetFillRule", fillRule, <<>>, FALSE)
createMoveToCommand(p) == Instruction("MoveTo", "-", <<p[1], p[2]>>, FALSE)
createLineToCommand(p) == Instruction("LineTo", "-", <<p[1], p[2]>>, FALSE)
createCubicBezierCurveCommand(cp1, cp2, ep) ==
    Instruction("CubicCurveTo", "-", <<cp1[1], cp1[2], cp2[1], cp2[2], ep[1], ep[2]>>, FALSE)
createQuadraticBezierCurveCommand(cp, ep) ==
    Instruction("QuadraticCurveTo", "-", <<cp[1], cp[2], ep[1], ep[2]>>, FALSE)
createEllipticalArcCommand(center, radius, startAngle, endAngle, counterClockwise) ==
    Instruction("ArcTo", "-", <<center[1], center[2], radius, startAngle, endAngle>>,
                counterClockwise)
createClosePathCommand == Instruction("ClosePath", "-", <<>>, FALSE)

\* an instruction with the span of the source it was read from
Read(instr, from, to) ==
    [op |-> instr.op, rule |-> instr.rule, args |-> instr.args, ccw |-> instr.ccw,
     from |-> from, to |-> to]

Plain(instr) == Instruction(instr.op, instr.rule, instr.args, instr.ccw)
PlainList(cmds) == [i \in 1..Len(cmds) |-> Plain(cmds[i])]

-----------------------------------------------------------------------------
(* The grammars.  Each returns [s, v, err], v the instructions it produced. *)

\* a resolveRule whose switch has a default instead of the throw
resolveRuleLenient(num) ==
    IF ~num.nan /\ num = Whole(0) THEN "EvenOdd" ELSE "NonZero"

\* resolveRule of parseFillStyleCommand: switch (num) { case 0; case 1 }, else throw
resolveRule(num) ==
    IF ~num.nan /\ num = Whole(0) THEN "EvenOdd"
    ELSE IF ~num.nan /\ num = Whole(1) THEN "NonZero"
    ELSE "throw"

\* the statements of a grammar after its first
AfterLetter(s, err, Rest(_)) ==
    IF ~MoveNextResult(s) THEN Thrown(MoveNext(s), err) ELSE Rest(MoveNext(s))

fillStyleArgument(s) ==
    Bind(readNumberAndSkipWhitespace(s), LAMBDA n :
        IF resolveRule(n.v) = "throw" THEN Thrown(n.s, "InvalidFillRuleValue")
        ELSE Ok(n.s, <<Read(createFillRuleCommand(resolveRule(n.v)), s.position, n.s.position)>>))

parseFillStyleCommand(s) == AfterLetter(s, "UnexpectedEndOfStream", fillStyleArgument)

\* a move-to grammar that goes on to a second point when one is written
moveToPointTwice(s) ==
    Bind(readPointAndSkipWhitespace(s), LAMBDA p :
        IF ~isCommandCharacter(Current(p.s)) /\ NotNull(Current(p.s))
        THEN Bind(readPointAndSkipWhitespace(p.s), LAMBDA q :
                 Ok(q.s, <<Read(createMoveToCommand(p.v), s.position, p.s.position),
                           Read(createMoveToCommand(q.v), p.s.position, q.s.position)>>))
        ELSE Ok(p.s, <<Read(createMoveToCommand(p.v), s.position, p.s.position)>>))

moveToPoint(s) ==
    Bind(readPointAndSkipWhitespace(s), LAMBDA p :
        Ok(p.s, <<Read(createMoveToCommand(p.v), s.position, p.s.position)>>))

moveToArgument(s) == moveToPoint(skipWhitespace(s))

parseMoveToCommand(s) == AfterLetter(s, "UnexpectedEndOfStream", moveToArgument)

closePath(s) == Ok(s, <<Read(createClosePathCommand, s.position, s.position)>>)

\* a close-path grammar that, like the others, throws at the end of the source
parseClosePathCommandStrict(s) ==
    IF ~MoveNextResult(s) THEN Thrown(MoveNext(s), "UnexpectedEndOfStream")
    ELSE closePath(skipWhitespace(MoveNext(s)))

parseClosePathCommand(s) == closePath(skipWhitespace(MoveNext(s)))

\* a loop test without the test for a command letter
loopConditionNotNull(s) == NotNull(Current(s))

\* the loop test of the four repeating grammars
loopCondition(s) == ~isCommandCharacter(Current(s)) /\ NotNull(Current(s))

emptyCommands(s) == Ok(skipWhitespace(s), <<>>)

\* the statements of the four repeating grammars before their loop
enterRepeating(s) == AfterLetter(s, "UnexpectedEndOfStream", emptyCommands)

\* a loop body that reads the point and skips nothing after it
parseLineToCommandNoSkip(s) ==
    Bind(readPoint(s), LAMBDA p :
        Ok(p.s, <<Read(createLineToCommand(p.v), s.position, p.s.position)>>))

\* one iteration of parseLineToCommand's loop
parseLineToCommand(s) ==
    Bind(readPointAndSkipWhitespace(s), LAMBDA p :
        Ok(p.s, <<Read(createLineToCommand(p.v), s.position, p.s.position)>>))

\* a loop body that hands the control points to the factory in the wrong order
parseCubicBezierCurveCommandSwapped(s) ==
    Bind(readPointAndSkipSeparator(s), LAMBDA cp1 :
    Bind(readPointAndSkipSeparator(cp1.s), LAMBDA cp2 :
    Bind(readPointAndSkipSeparator(cp2.s), LAMBDA ep :
        Ok(ep.s, <<Read(createCubicBezierCurveCommand(cp2.v, cp1.v, ep.v),
                        s.position, ep.s.position)>>))))

\* one iteration of parseCubicBezierCurveCommand's loop
parseCubicBezierCurveCommand(s) ==
    Bind(readPointAndSkipSeparator(s), LAMBDA cp1 :
    Bind(readPointAndSkipSeparator(cp1.s), LAMBDA cp2 :
    Bind(readPointAndSkipSeparator(cp2.s), LAMBDA ep :
        Ok(ep.s, <<Read(createCubicBezierCurveCommand(cp1.v, cp2.v, ep.v),
                        s.position, ep.s.position)>>))))

\* one iteration of parseQuadraticBezierCurveCommand's loop
parseQuadraticBezierCurveCommand(s) ==
    Bind(readPointAndSkipSeparator(s), LAMBDA cp :
    Bind(readPointAndSkipSeparator(cp.s), LAMBDA ep :
        Ok(ep.s, <<Read(createQuadraticBezierCurveCommand(cp.v, ep.v),
                        s.position, ep.s.position)>>)))

\* a test that takes every flag but 0 as counter-clockwise
isCounterClockwiseNonZero(flag) == flag.nan \/ flag # Whole(0)

\* readNumberAndSkipSeparator(stream) === 1
isCounterClockwise(flag) == ~flag.nan /\ flag = Whole(1)

\* one iteration of parseEllipticalArcCommand's loop
parseEllipticalArcCommand(s) ==
    Bind(readPointAndSkipSeparator(s), LAMBDA center :
    Bind(readNumberAndSkipSeparator(center.s), LAMBDA radius :
    Bind(readNumberAndSkipSeparator(radius.s), LAMBDA startAngle :
    Bind(readNumberAndSkipSeparator(startAngle.s), LAMBDA endAngle :
    Bind(readNumberAndSkipSeparator(endAngle.s), LAMBDA flag :
        Ok(flag.s, <<Read(createEllipticalArcCommand(center.v, radius.v, startAngle.v,
                                                     endAngle.v, isCounterClockwise(flag.v)),
                          s.position, flag.s.position)>>))))))

\* the iteration of the repeating grammar of a letter
getCommandParser(letter, s) ==
    CASE letter = "L" -> parseLineToCommand(s)
      [] letter = "C" -> parseCubicBezierCurveCommand(s)
      [] letter = "Q" -> parseQuadraticBezierCurveCommand(s)
      [] letter = "A" -> parseEllipticalArcCommand(s)

RepeatingCommands == {"L", "C", "Q", "A"}
\* an initial phase that also takes L
InitialCommandsWithL == {"F", "M", "L"}
InitialCommands == {"F", "M"}
SecondaryCommands == {"M", "L", "C", "Q", "A", "Z"}

resolveCommand(validCommands, current) ==
    IF current \in validCommands THEN NoError ELSE "InvalidCommand"

\* an initial phase that resolves the character the stream starts on
ResolveInitialStreamNoSkip(r, s) == s

\* the stream on which the initial command is resolved: the class revision's
\* ResolveInitialCommand skips whitespace first
ResolveInitialStream(r, s) == IF r = "class" THEN skipWhitespace(s) ELSE s

\* a class revision that leaves the case of the text as it is
NormalisedAsWritten(r, p) == IF r = "class" THEN p ELSE trim(toUpperCase(p))

\* the source the stream is constructed over
Normalised(r, p) == IF r = "class" THEN toUpperCase(p) ELSE trim(toUpperCase(p))

\* an emptiness test made on the trimmed text
IsEmptyPathTrimmed(p) == trim(p) = <<>>

\* a Parse without its first statement
IsEmptyPathNever(p) == FALSE

\* the test of Parse's first statement (the module revision also tests for null)
IsEmptyPath(p) == p = <<>>

-----------------------------------------------------------------------------
(* The inputs.  Every input is a text together with the way it was built;   *)
(* the families that are built from tokens carry the instructions the text  *)
(* is meant to denote, each token with the value its spelling denotes.      *)

Revisions == {"module", "class"}

RECURSIVE Join(_, _)
Join(texts, sep) ==
    IF texts = <<>> THEN <<>>
    ELSE IF Len(texts) = 1 THEN texts[1]
    ELSE texts[1] \o sep \o Join(Tail(texts), sep)

RECURSIVE Flatten(_)
Flatten(seqs) == IF seqs = <<>> THEN <<>> ELSE seqs[1] \o Flatten(Tail(seqs))

UpTo(n, S) == UNION {[1..k -> S] : k \in 0..n}
FromOneUpTo(n, S) == UNION {[1..k -> S] : k \in 1..n}

\* twin is the text of the caller's second call, when again says there is one;
\* both says that the caller hands the text to the one revision and then to the other
MakeInput(family, text, letter, lead, sepIn, sepOut, expected) ==
    [family |-> family, text |-> text, letter |-> letter, lead |-> lead,
     sepIn |-> sepIn, sepOut |-> sepOut, expected |-> expected,
     again |-> FALSE, twin |-> <<>>, both |-> FALSE]

(* Family "raw": a head followed by every text of at most MaxTail          *)
(* characters, one character of each lexical class.                         *)
TailChars == {"M", "L", "C", "Z", "F", "X", "E", "1", ",", " "}

Heads ==
    { <<>>,
      <<"M", "0">>,
      <<" ", "m", "0", "z">>,
      <<"F", "1", "M", "0">>,
      <<"M", "0", "L", "1", ",", "1">>,
      <<"M", "0", "Q", "1", " ", "1", " ", "1", " ", "1">>,
      <<"M", "0", "A", "1", ",", "1", ",", "1", ",", "1", ",", "1", ",", "1">> }

RawInputs ==
    { MakeInput("raw", h \o tl, "-", <<>>, <<>>, <<>>, <<>>) :
        h \in Heads, tl \in UpTo(MaxTail, TailChars) }

(* Family "groups": M0,0 then one repeating letter, its argument groups     *)
(* and a tail.  sepIn separates the points of a group, sepOut the groups.   *)
PointTokens ==
    { [text |-> <<"0", ",", "0">>,
       v    |-> Point(Whole(0), Whole(0))],
      [text |-> <<"1", "0", " ", "-", "1">>,
       v    |-> Point(Whole(10), Whole(-1))],
      [text |-> <<".", "5", ",", "\t", "1", ".", "5", "e", "-", "3">>,
       v    |-> Point(Num(5, -1), Num(15, -4))] }

ArgSeps == { <<" ">>, <<",">>, <<"\t", ",", " ">> }
WhitespaceSeps == { s \in ArgSeps : \A i \in 1..Len(s) : s[i] \in _wsChars }
Leads == { <<>>, <<" ">> }

GroupTails ==
    { [text |-> <<>>, expected |-> <<>>],
      [text |-> <<"z">>, expected |-> <<Instruction("ClosePath", "-", <<>>, FALSE)>>] }

\* a group of n different points, in every order
GroupsOf(n) == { g \in [1..n -> PointTokens] : \A i, j \in 1..n : g[i] = g[j] => i = j }

GroupShapes(letter) ==
    CASE letter = "L" -> FromOneUpTo(MaxPoints, [1..1 -> PointTokens])
      [] letter = "C" -> FromOneUpTo(MaxGroups, GroupsOf(3))
      [] letter = "Q" -> FromOneUpTo(MaxGroups, GroupsOf(2))

\* the coordinates of the points of a group, in the order they are written
Coordinates(g) == Flatten([i \in 1..Len(g) |-> g[i].v])

\* the instruction a group of a letter denotes (section 4.3 of the specification)
GroupInstruction(letter, g) ==
    Instruction(CASE letter = "L" -> "LineTo"
                  [] letter = "C" -> "CubicCurveTo"
                  [] letter = "Q" -> "QuadraticCurveTo",
                "-", Coordinates(g), FALSE)

GroupText(g, sepIn) == Join([i \in 1..Len(g) |-> g[i].text], sepIn)

GroupInput(letter, gs, lead, sepIn, sepOut, tl) ==
    MakeInput("groups",
              <<"M", "0", ",", "0", letter>> \o lead
                  \o Join([i \in 1..Len(gs) |-> GroupText(gs[i], sepIn)], sepOut)
                  \o tl.text,
              letter, lead, sepIn, sepOut,
              <<Instruction("MoveTo", "-", <<Whole(0), Whole(0)>>, FALSE)>>
                  \o [i \in 1..Len(gs) |-> GroupInstruction(letter, gs[i])]
                  \o tl.expected)

LetterInputs(letter, SepIns) ==
    { GroupInput(letter, gs, lead, sepIn, sepOut, tl) :
        gs \in GroupShapes(letter), lead \in Leads, sepIn \in SepIns,
        sepOut \in ArgSeps, tl \in GroupTails }

GroupInputs ==
    LetterInputs("L", {<<>>}) \cup LetterInputs("C", ArgSeps) \cup LetterInputs("Q", ArgSeps)

(* Family "fill": F, a number written directly after it, and a rest.       *)
NumberTokens ==
    { [text |-> <<"0">>, v |-> Whole(0)],
      [text |-> <<"1">>, v |-> Whole(1)],
      [text |-> <<"2">>, v |-> Whole(2)],
      [text |-> <<"-", "1">>, v |-> Whole(-1)],
      [text |-> <<"-", "0">>, v |-> Whole(0)],
      [text |-> <<"0", "1">>, v |-> Whole(1)],
      [text |-> <<"1", "0">>, v |-> Whole(10)],
      [text |-> <<"1", ".">>, v |-> Whole(1)],
      [text |-> <<"0", ".", "0">>, v |-> Whole(0)],
      [text |-> <<"1", ".", "0">>, v |-> Whole(1)],
      [text |-> <<".", "5">>, v |-> Num(5, -1)],
      [text |-> <<"1", "0", ".", "0", "E", "-", "1">>, v |-> Whole(1)],
      [text |-> <<"0", ".", "1", "e", "1">>, v |-> Whole(1)],
      [text |-> <<"0", ".", "1", "E", "-", "1">>, v |-> Num(1, -2)],
      [text |-> <<"-">>, v |-> NaN],
      [text |-> <<".">>, v |-> NaN] }

FillRests ==
    { <<>>, <<"M", "0", ",", "0", "Z">>, <<" ", "m", "0", " ", "0", "z">> }

FillInputs ==
    { [MakeInput("fill", <<"F">> \o n.text \o r, "F", <<>>, <<>>, <<>>, <<>>)
         EXCEPT !.expected = <<n.v>>] :
        n \in NumberTokens, r \in FillRests }

Inputs == RawInputs \cup GroupInputs \cup FillInputs

(* Family "arc": M0,0 then A and groups of six numbers: centre x and y,     *)
(* radius, start angle, end angle, direction flag.  ccw is what the flag    *)
(* denotes.  Family "arc7": one group, with a seventh number after it.      *)
Tok(text, v) == [text |-> text, v |-> v]

ArcGroups ==
    { [nums |-> <<Tok(<<"0">>, Whole(0)), Tok(<<"0">>, Whole(0)), Tok(<<"5">>, Whole(5)),
                  Tok(<<"0">>, Whole(0)), Tok(<<"3", ".", "1", "4">>, Num(314, -2)),
                  Tok(<<"1">>, Whole(1))>>,
       ccw |-> TRUE],
      [nums |-> <<Tok(<<"1", "0">>, Whole(10)), Tok(<<"-", "1">>, Whole(-1)),
                  Tok(<<"1", ".", "5", "e", "1">>, Whole(15)), Tok(<<"-", ".", "5">>, Num(-5, -1)),
                  Tok(<<"2">>, Whole(2)), Tok(<<"0">>, Whole(0))>>,
       ccw |-> FALSE],
      [nums |-> <<Tok(<<".", "5">>, Num(5, -1)), Tok(<<"2">>, Whole(2)), Tok(<<"1">>, Whole(1)),
                  Tok(<<"0">>, Whole(0)), Tok(<<"1">>, Whole(1)), Tok(<<"2">>, Whole(2))>>,
       ccw |-> FALSE],
      [nums |-> <<Tok(<<"3">>, Whole(3)), Tok(<<"1", "0">>, Whole(10)), Tok(<<"2">>, Whole(2)),
                  Tok(<<"0", ".", "1", "E", "1">>, Whole(1)), Tok(<<"5">>, Whole(5)),
                  Tok(<<"0", ".", "1", "e", "1">>, Whole(1))>>,
       ccw |-> TRUE] }

\* the instruction a group of A denotes (section 4.3 of the specification)
ArcInstruction(g) ==
    Instruction("ArcTo", "-", [i \in 1..5 |-> g.nums[i].v], g.ccw)

SeventhNumber == Tok(<<"9">>, Whole(9))

ArcText(g, sepIn, extra) == GroupText(g.nums \o extra, sepIn)

ArcInput(family, gs, extra, lead, sepIn, sepOut, tl) ==
    MakeInput(family,
              <<"M", "0", ",", "0", "a">> \o lead
                  \o Join([i \in 1..Len(gs) |-> ArcText(gs[i], sepIn, extra)], sepOut)
                  \o tl.text,
              "A", lead, sepIn, sepOut,
              <<Instruction("MoveTo", "-", <<Whole(0), Whole(0)>>, FALSE)>>
                  \o [i \in 1..Len(gs) |-> ArcInstruction(gs[i])]
                  \o tl.expected)

ArcInputs ==
    { ArcInput("arc", gs, <<>>, lead, sepIn, sepOut, tl) :
        gs \in FromOneUpTo(MaxGroups, ArcGroups), lead \in Leads, sepIn \in ArgSeps,
        sepOut \in ArgSeps, tl \in GroupTails }

Arc7Inputs ==
    { ArcInput("arc7", <<g>>, <<SeventhNumber>>, lead, sepIn, sepIn, tl) :
        g \in ArcGroups, lead \in Leads, sepIn \in ArgSeps, tl \in GroupTails }

(* Family "sequence": nothing or M0,0, then at most MaxItems items.         *)
SeqItems ==
    { <<"M">>, <<"L">>, <<"C">>, <<"Q">>, <<"A">>, <<"Z">>, <<"F">>,
      <<" ">>, <<"1", ",", "1">>, <<" ", "2">> }

SeqHeads == { <<>>, <<"M", "0", ",", "0">> }

SeqInputs ==
    { MakeInput("sequence", h \o Flatten(items), "-", <<>>, <<>>, <<>>, <<>>) :
        h \in SeqHeads, items \in UpTo(MaxItems, SeqItems) }

(* Family "exponent": a command's arguments up to one of its numbers, then  *)
(* a number with a fraction, E, an optional minus sign and something that   *)
(* is not a digit.  letter is the command whose argument the number is.     *)
Str(text, letter) == [text |-> text, letter |-> letter]

ExponentPrefixes ==
    { Str(<<"F">>, "F"),
      Str(<<"M">>, "M"),
      Str(<<"m", " ", "0", ",">>, "M"),
      Str(<<"M", "0", ",", "0", "L">>, "L"),
      Str(<<"M", "0", ",", "0", "l", "1", ",">>, "L"),
      Str(<<"M", "0", ",", "0", "L", "1", ",", "1", " ">>, "L"),
      Str(<<"M", "0", ",", "0", "C", "1", ",", "1", " ", "2", ",", "2", " ">>, "C"),
      Str(<<"M", "0", ",", "0", "C", "1", ",", "1", ",", "2", ",", "2", ",", "3", ",">>, "C"),
      Str(<<"F", "1", "M", "0", ",", "0", "Q", "1", ",", "1", ",">>, "Q"),
      Str(<<"M", "0", ",", "0", "A">>, "A"),
      Str(<<"M", "0", ",", "0", "A", "1", ",", "1", ",">>, "A"),
      Str(<<"M", "0", ",", "0", "a", "1", " ", "1", " ", "1", " ", "1", " ", "1", " ">>, "A"),
      Str(<<"M", "0", ",", "0", "A", "1", ",", "1", ",", "1", ",", "1", ",", "1", ",", "1",
            " ", "2", ",", "2", ",">>, "A") }

Fractions == { <<"1", ".", "5">>, <<".", "5">>, <<"-", "0", ".", "2", "5">> }
ExponentLetters == { <<"E">>, <<"e">> }
ExponentSigns == { <<>>, <<"-">> }
NotDigits ==
    { <<>>, <<" ">>, <<",">>, <<"Z">>, <<"X">>, <<"E", "1">>, <<"-", "-", "1">>, <<".", "1">>,
      <<" ", "1">> }

ExponentInputs ==
    { MakeInput("exponent", p.text \o f \o e \o sg \o nd, p.letter, <<>>, <<>>, <<>>, <<>>) :
        p \in ExponentPrefixes, f \in Fractions, e \in ExponentLetters,
        sg \in ExponentSigns, nd \in NotDigits }

(* Families "case" and "lead": the caller draws a text and then its twin.   *)
(* In "case" the text is a base text in every mix of cases and the twin is  *)
(* the text with every letter in its other case; in "lead" the twin is a    *)
(* text that begins with F or M and the text is whitespace and the twin.    *)
SwapCaseChar(c) ==
    IF \E i \in 1..Len(LowerCase) : LowerCase[i] = c
    THEN UpperCase[CHOOSE i \in 1..Len(LowerCase) : LowerCase[i] = c]
    ELSE IF \E i \in 1..Len(UpperCase) : UpperCase[i] = c
    THEN LowerCase[CHOOSE i \in 1..Len(UpperCase) : UpperCase[i] = c]
    ELSE c

SwapCase(str) == [i \in 1..Len(str) |-> SwapCaseChar(str[i])]

\* a text with each of its letters in either case
RECURSIVE Cases(_)
Cases(str) ==
    IF str = <<>> THEN {<<>>}
    ELSE { <<c>> \o r : c \in {Head(str), SwapCaseChar(Head(str))}, r \in Cases(Tail(str)) }

CaseBases ==
    { <<>>,
      <<"M", "0", ",", "0", "L", "1", ",", "1">>,
      <<"F", "1", "M", ".", "5", "E", "1", ",", "0", "Z">>,
      <<"M", "0", ",", "0", "C", "1", ",", "1", " ", "2", ",", "2", " ", "3", ",", "3",
        "Q", "1", ",", "1", " ", "2", ",", "2">>,
      <<"M", "1", ".", "5", "E", "-", "3", ",", "0", "A", "1", ",", "1", ",", "1", ",", "1",
        ",", "1", ",", "1", "Z">>,
      <<"L", "1", ",", "1">>,
      <<"F", "2", "M">>,
      <<"M", "0", ".", "5", "E", "Z">>,
      <<"M", "0", ",", "0", "L">>,
      <<"M", "0", ",", "0", "X">> }

Twinned(family, text, twin) ==
    [MakeInput(family, text, "-", <<>>, <<>>, <<>>, <<>>) EXCEPT !.again = TRUE, !.twin = twin]

CaseInputs ==
    UNION { { Twinned("case", text, SwapCase(text)) : text \in Cases(b) } : b \in CaseBases }

LeadBases ==
    { <<"M", "0", ",", "0", "L", "1", ",", "1">>,
      <<"F", "1", "M", "0", ",", "0", "Z">>,
      <<"f", "0", " ", "m", "0", " ", "0", " ", "z", " ">>,
      <<"M", "0", ",", "0", "L", " ", "1", ",", "1", "Z", "\t">>,
      <<"M">>,
      <<"F">>,
      <<"F", "2">>,
      <<"M", "0", ",", "0">>,
      <<"m", "0", ",", "0", "x">>,
      <<"M", "0", ",", "0", "L", "1", ".", "5", "E">> }

LeadInputs ==
    { Twinned("lead", w \o s, s) : w \in FromOneUpTo(MaxLead, _wsChars), s \in LeadBases }

(* Family "gap": the caller draws a text with whitespace written between a  *)
(* command letter and its first argument, and then its twin without it.     *)
Gap(head, rest, letter) == [head |-> head, rest |-> rest, letter |-> letter]

GapBases ==
    { Gap(<<"F">>, <<"1", "M", "0", ",", "0", "Z">>, "F"),
      Gap(<<"F">>, <<"0", "M", "0", ",", "0", "Z">>, "F"),
      Gap(<<"M">>, <<"0", ",", "0", "Z">>, "M"),
      Gap(<<"f", "1", "m">>, <<"1", " ", "2", "l", "3", ",", "4">>, "M"),
      Gap(<<"M", "0", ",", "0", "L">>, <<"1", ",", "1", "Z">>, "L"),
      Gap(<<"M", "0", ",", "0", "C">>,
          <<"1", ",", "1", " ", "2", ",", "2", " ", "3", ",", "3">>, "C"),
      Gap(<<"M", "0", ",", "0", "Q">>, <<"1", ",", "1", ",", "2", ",", "2", "Z">>, "Q"),
      Gap(<<"M", "0", ",", "0", "A">>,
          <<"1", ",", "1", ",", "5", ",", "0", ",", "1", ",", "1", "Z">>, "A") }

GapInputs ==
    { [Twinned("gap", b.head \o w \o b.rest, b.head \o b.rest)
         EXCEPT !.letter = b.letter, !.lead = w] :
        w \in FromOneUpTo(MaxLead, _wsChars), b \in GapBases }

(* Family "fills": the caller draws one of these texts and then another, on *)
(* the same canvas.                                                         *)
FillTexts ==
    { <<"F", "1", "M", "0", ",", "0", "Z">>,
      <<"F", "0", "M", "0", ",", "0", "Z">>,
      <<"M", "0", ",", "0", "Z">>,
      <<"f", "1", "m", "0", ",", "0", "l", "1", ",", "1">> }

FillsInputs == { Twinned("fills", a, b) : a, b \in FillTexts }

(* Family "short": M0,0, then C, Q or A and a group that stops before its   *)
(* last number, at the end of the text or at a Z; and F with no number.     *)
ShortNumbers ==
    << Tok(<<"1">>, Whole(1)), Tok(<<"2">>, Whole(2)), Tok(<<"-", "3">>, Whole(-3)),
       Tok(<<".", "5">>, Num(5, -1)), Tok(<<"4">>, Whole(4)), Tok(<<"1">>, Whole(1)) >>

\* how many numbers a group of a letter has, and how many of them are coordinates
GroupLength(letter) == CASE letter = "C" -> 6 [] letter = "Q" -> 4 [] letter = "A" -> 6
ArgsLength(letter) == CASE letter = "C" -> 6 [] letter = "Q" -> 4 [] letter = "A" -> 5

\* the instruction of a group of which only the first k numbers are written
ShortInstruction(letter, k) ==
    Instruction(CASE letter = "C" -> "CubicCurveTo"
                  [] letter = "Q" -> "QuadraticCurveTo"
                  [] letter = "A" -> "ArcTo",
                "-",
                [i \in 1..ArgsLength(letter) |-> IF i <= k THEN ShortNumbers[i].v ELSE Whole(0)],
                FALSE)

ShortEnds == { <<>>, <<",">>, <<" ">> }

ShortGroupInputs(letter) ==
    { MakeInput("short",
                <<"M", "0", ",", "0", letter>> \o GroupText(SubSeq(ShortNumbers, 1, k), sepIn)
                    \o e \o tl.text,
                letter, <<>>, sepIn, e,
                <<Instruction("MoveTo", "-", <<Whole(0), Whole(0)>>, FALSE),
                  ShortInstruction(letter, k)>> \o tl.expected) :
        k \in 1..(GroupLength(letter) - 1), sepIn \in {<<",">>, <<" ">>},
        e \in ShortEnds, tl \in GroupTails }

ShortFillInputs ==
    { MakeInput("short", <<"F">> \o w \o r.text, "F", w, <<>>, <<>>,
                <<Instruction("SetFillRule", "EvenOdd", <<>>, FALSE)>> \o r.expected) :
        w \in { <<>>, <<" ">> },
        r \in { [text |-> <<"M", "0", ",", "0", "Z">>,
                 expected |-> <<Instruction("MoveTo", "-", <<Whole(0), Whole(0)>>, FALSE),
                                Instruction("ClosePath", "-", <<>>, FALSE)>>],
                [text |-> <<"z">>,
                 expected |-> <<Instruction("ClosePath", "-", <<>>, FALSE)>>] } }

ShortInputs ==
    ShortGroupInputs("C") \cup ShortGroupInputs("Q") \cup ShortGroupInputs("A")
        \cup ShortFillInputs

(* Family "single": one initial command with its arguments and nothing      *)
(* after them but whitespace.                                               *)
SingleCommands ==
    { Str(<<"F", "0">>, "F"),
      Str(<<"f", "1">>, "F"),
      Str(<<"F", "0", ".", "0">>, "F"),
      Str(<<"M", "0", ",", "0">>, "M"),
      Str(<<"m", "1", " ", "2">>, "M"),
      Str(<<"M", " ", "-", "1", ",", ".", "5">>, "M"),
      Str(<<"M", "1", ".", "5", "e", "1", "\t", ",", "2">>, "M"),
      Str(<<"M", "7">>, "M") }

SingleInputs ==
    { MakeInput("single", lead \o c.text \o w, c.letter, lead, <<>>, w, <<>>) :
        lead \in Leads, c \in SingleCommands, w \in UpTo(MaxLead, _wsChars) }

(* Family "blank": a text of spaces and tabs.                               *)
BlankInputs ==
    { MakeInput("blank", text, "-", <<>>, <<>>, <<>>, <<>>) :
        text \in FromOneUpTo(MaxBlank, _wsChars) }

(* Families "revisions", "letter" and "newline": the caller hands a text to *)
(* one revision and then to the other.  The text is a base text followed by *)
(* spaces and tabs (sepOut); in "letter" the base text ends with a letter   *)
(* that takes arguments; in "newline" it begins with a line break, which    *)
(* trim removes and skipWhitespace does not skip.                           *)
RevisionBases ==
    { <<"M", "0", ",", "0", "L", "1", ",", "1">>,
      <<"m", "0", ",", "0", "z">>,
      <<"F", "1", "M", "0", ",", "0", "Z">>,
      <<"M", "0", ",", "0", "C", "1", ",", "1", " ", "2", ",", "2", " ", "3", ",", "3">>,
      <<" ", "\t", "M", "0", ",", "0", "Q", "1", ",", "1", " ", "2", ",", "2", "Z">>,
      <<"M", "0", ",", "0", "a", "1", ",", "1", ",", "5", ",", "0", ",", "1", ",", "1">>,
      <<"M", "0", ",", "0">>,
      <<"F", "2">>,
      <<"F", "1">>,
      <<"M", "0", ",", "0", "X">>,
      <<"M", "1", ".", "5", "E">>,
      <<"L", "1", ",", "1">>,
      <<"M", "0", ",", "0", "L", "Z">> }

LetterBases ==
    { <<"M">>,
      <<"F">>,
      <<" ", "m">>,
      <<"M", "0", ",", "0", "L">>,
      <<"M", "0", ",", "0", "L", "1", ",", "1", "C">>,
      <<"F", "1", "M", "0", ",", "0", "q">>,
      <<"M", "0", ",", "0", "Z", "A">>,
      <<"M", "0", ",", "0", "M">> }

NewlineBases ==
    { <<"\n", "M", "0", ",", "0", "Z">>,
      <<"\r", "\n", " ", "F", "1", "M", "0", ",", "0", "L", "1", ",", "1">> }

Both(family, text, trail) ==
    [MakeInput(family, text \o trail, "-", <<>>, <<>>, trail, <<>>) EXCEPT !.both = TRUE]

RevisionInputs ==
    { Both("revisions", b, w) : b \in RevisionBases, w \in UpTo(MaxLead, _wsChars) }
        \cup { Both("letter", b, w) : b \in LetterBases, w \in UpTo(MaxLead, _wsChars) }
        \cup { Both("newline", b, <<>>) : b \in NewlineBases }

\* the texts the caller draws in the specification SpecCalls
CallInputs ==
    ArcInputs \cup Arc7Inputs \cup SeqInputs \cup ExponentInputs \cup CaseInputs \cup LeadInputs
        \cup GapInputs \cup FillsInputs \cup ShortInputs \cup SingleInputs \cup BlankInputs
        \cup RevisionInputs

-----------------------------------------------------------------------------
(* The parse, step by step.                                                 *)

\* no call of Parse has ended yet
NoCall == [done |-> FALSE, outcome |-> "none", error |-> NoError, commands |-> <<>>]
\* readNumber has not been called directly
NotScanned == [text |-> <<>>, value |-> NaN]
\* a canvas nothing has been drawn on: its context has no msFillRule yet
NewCanvas == [msFillRule |-> Undefined, fill |-> Null, painted |-> FALSE]
\* MoveNext has not been called directly
NotAdvanced == [count |-> 0, result |-> FALSE]

\* drawPath has called context.beginPath() and calls Parse(pathText)
Called(texts) ==
    /\ rev \in Revisions
    /\ input \in texts
    /\ path = input.text
    /\ stream = NoStream
    /\ commands = <<>>
    /\ local = <<>>
    /\ grammar = Null
    /\ dispatched = <<>>
    /\ pc = "Parse"
    /\ error = NoError
    /\ context = <<"beginPath">>
    /\ first = NoCall
    /\ scanned = NotScanned
    /\ canvas = NewCanvas
    /\ advanced = NotAdvanced

Init == Called(Inputs)

\* Parse, up to the construction of the stream
ParseEnter ==
    /\ pc = "Parse"
    /\ IF IsEmptyPath(path)
       THEN /\ pc' = "returned"
            /\ UNCHANGED stream
       ELSE /\ pc' = "initial"
            /\ stream' = TextStream(IF rev = "class" THEN "computed" ELSE "cached",
                                    Normalised(rev, path))
    /\ UNCHANGED <<rev, input, path, commands, local, grammar, dispatched, error>>
    /\ UNCHANGED callerVars

\* resolveInitialCommand(stream.Current)(stream)
initialCommand(s) ==
    IF resolveCommand(InitialCommands, Current(s)) # NoError THEN Thrown(s, "InvalidCommand")
    ELSE IF Current(s) = "F" THEN parseFillStyleCommand(s)
    ELSE parseMoveToCommand(s)

\* a body phase that resolves every letter of the command mappings, F included
secondaryCommandWithFill(s) ==
    IF Current(s) = "F" THEN parseFillStyleCommand(s)
    ELSE IF resolveCommand(SecondaryCommands, Current(s)) # NoError THEN Thrown(s, "InvalidCommand")
    ELSE IF Current(s) = "M" THEN parseMoveToCommand(s)
    ELSE IF Current(s) = "Z" THEN parseClosePathCommand(s)
    ELSE enterRepeating(s)

\* a body phase that dispatches nothing when the input has ended
secondaryCommandUnlessEnded(s) ==
    IF ~NotNull(Current(s)) THEN Ok(s, <<>>)
    ELSE IF resolveCommand(SecondaryCommands, Current(s)) # NoError THEN Thrown(s, "InvalidCommand")
    ELSE IF Current(s) = "M" THEN parseMoveToCommand(s)
    ELSE IF Current(s) = "Z" THEN parseClosePathCommand(s)
    ELSE enterRepeating(s)

\* resolveSecondaryCommand(stream.Current)(stream), up to the loop of a repeating grammar
secondaryCommand(s) ==
    IF resolveCommand(SecondaryCommands, Current(s)) # NoError THEN Thrown(s, "InvalidCommand")
    ELSE IF Current(s) = "M" THEN parseMoveToCommand(s)
    ELSE IF Current(s) = "Z" THEN parseClosePathCommand(s)
    ELSE enterRepeating(s)

\* a concat with receiver and argument exchanged
concatReversed(a, b) == b \o a

\* Array.prototype.concat
concat(a, b) == a \o b

\* the grammar dispatched on letter c in a phase ended as g
Dispatched(phase, valid, c, g) ==
    /\ dispatched' = IF c \in valid THEN Append(dispatched, <<phase, c>>) ELSE dispatched
    /\ stream' = g.s
    /\ local' = <<>>
    /\ IF g.err # NoError
       THEN /\ error' = g.err
            /\ pc' = "failed"
            /\ UNCHANGED <<commands, grammar>>
       ELSE /\ UNCHANGED error
            /\ IF c \in RepeatingCommands
               THEN /\ grammar' = c
                    /\ pc' = "loop"
                    /\ UNCHANGED commands
               ELSE /\ commands' = concat(commands, g.v)
                    /\ pc' = IF phase = "initial" THEN "body" ELSE "advance"
                    /\ UNCHANGED grammar

InitialOn(s) == Dispatched("initial", InitialCommands, Current(s), initialCommand(s))

\* var commands = resolveInitialCommand(stream.Current)(stream)
ParseInitial ==
    /\ pc = "initial"
    /\ InitialOn(ResolveInitialStream(rev, stream))
    /\ UNCHANGED <<rev, input, path>>
    /\ UNCHANGED callerVars

\* commands = commands.concat(resolveSecondaryCommand(stream.Current)(stream)),
\* up to the loop of a repeating grammar
ParseSecondary ==
    /\ pc = "body"
    /\ Dispatched("body", SecondaryCommands, Current(stream), secondaryCommand(stream))
    /\ UNCHANGED <<rev, input, path>>
    /\ UNCHANGED callerVars

GroupRead(g) ==
    /\ stream' = g.s
    /\ IF g.err # NoError
       THEN /\ error' = g.err
            /\ pc' = "failed"
            /\ UNCHANGED local
       ELSE /\ local' = local \o g.v
            /\ UNCHANGED <<pc, error>>

\* one iteration of the loop of a repeating grammar
GrammarGroup ==
    /\ pc = "loop"
    /\ loopCondition(stream)
    /\ Len(local) < MaxLocal
    /\ GroupRead(getCommandParser(grammar, stream))
    /\ UNCHANGED <<rev, input, path, commands, grammar, dispatched>>
    /\ UNCHANGED callerVars

\* the loop of a repeating grammar ends: return commands, and the driver's
\* commands = commands.concat(...)
GrammarReturn ==
    /\ pc = "loop"
    /\ ~loopCondition(stream)
    /\ commands' = concat(commands, local)
    /\ local' = <<>>
    /\ grammar' = Null
    /\ pc' = "advance"
    /\ UNCHANGED <<rev, input, path, stream, dispatched, error>>
    /\ UNCHANGED callerVars

\* the end of the driver's loop body: continue, or MoveNext and go on, or break
ParseAdvance ==
    /\ pc = "advance"
    /\ IF NotNull(Current(stream)) /\ isCommandCharacter(Current(stream))
       THEN pc' = "body" /\ UNCHANGED stream
       ELSE /\ stream' = MoveNext(stream)
            /\ pc' = IF MoveNextResult(stream) THEN "body" ELSE "returned"
    /\ UNCHANGED <<rev, input, path, commands, local, grammar, dispatched, error>>
    /\ UNCHANGED callerVars

Next ==
    \/ ParseEnter
    \/ ParseInitial
    \/ ParseSecondary
    \/ GrammarGroup
    \/ GrammarReturn
    \/ ParseAdvance

Spec == Init /\ [][Next]_vars

-----------------------------------------------------------------------------
(* The caller.  drawPath replays what Parse returns on the canvas context   *)
(* and then strokes and fills; an exception of Parse leaves drawPath at     *)
(* once.  A caller may then clear the canvas and draw a second path on it:  *)
(* context is the log of the calls of the drawPath in progress, canvas is   *)
(* what the canvas and its one 2d context keep between the calls.           *)

\* the context member an instruction's closure uses
Invoke(instr) ==
    CASE instr.op = "SetFillRule" -> "msFillRule"
      [] instr.op = "MoveTo" -> "moveTo"
      [] instr.op = "LineTo" -> "lineTo"
      [] instr.op = "CubicCurveTo" -> "bezierCurveTo"
      [] instr.op = "QuadraticCurveTo" -> "quadraticCurveTo"
      [] instr.op = "ArcTo" -> "arc"
      [] instr.op = "ClosePath" -> "closePath"

\* c => c.msFillRule = fillRule === FillRule.EvenOdd ? "evenodd" : "nonzero"
FillRuleName(rule) == IF rule = "EvenOdd" THEN "evenodd" ELSE "nonzero"

\* the context's msFillRule after forEach(c => c(context)) over the instructions
RECURSIVE forEach(_, _)
forEach(cmds, msFillRule) ==
    IF cmds = <<>> THEN msFillRule
    ELSE forEach(Tail(cmds), IF Head(cmds).op = "SetFillRule"
                             THEN FillRuleName(Head(cmds).rule)
                             ELSE msFillRule)

defaultOptions == [fillRule |-> "evenodd"]

\* context.msFillRule || defaultOptions.fillRule
fillArgument(msFillRule) ==
    IF msFillRule = Undefined THEN defaultOptions.fillRule ELSE msFillRule

\* the canvas after the instructions were replayed on its context and it was filled
Filled(cv, cmds) ==
    [msFillRule |-> forEach(cmds, cv.msFillRule),
     fill       |-> fillArgument(forEach(cmds, cv.msFillRule)),
     painted    |-> TRUE]

\* a drawPath that strokes and fills what Parse had collected when it threw
drawPathAnyway ==
    /\ pc \in {"returned", "failed"}
    /\ context' = context \o [i \in 1..Len(commands) |-> Invoke(commands[i])]
                          \o <<"stroke", "fill">>
    /\ canvas' = Filled(canvas, commands)
    /\ pc' = "drawn"
    /\ UNCHANGED <<rev, input, path, stream, commands, local, grammar, dispatched, error,
                   first, scanned, advanced>>

\* Parse(pathText).forEach(c => c(context)); context.stroke(); context.fill(...)
drawPath ==
    /\ pc = "returned"
    /\ context' = context \o [i \in 1..Len(commands) |-> Invoke(commands[i])]
                          \o <<"stroke", "fill">>
    /\ canvas' = Filled(canvas, commands)
    /\ pc' = "drawn"
    /\ UNCHANGED <<rev, input, path, stream, commands, local, grammar, dispatched, error,
                   first, scanned, advanced>>

\* context.setTransform(1, 0, 0, 1, 0, 0); context.clearRect(0, 0, width, height)
clearCanvas ==
    /\ pc \in {"drawn", "failed"}
    /\ canvas.painted
    /\ canvas' = [canvas EXCEPT !.painted = FALSE]
    /\ UNCHANGED <<rev, input, path, stream, commands, local, grammar, dispatched, pc, error,
                   context, first, scanned, advanced>>

\* how the call that has just ended ended
Ended ==
    [done |-> TRUE, outcome |-> pc, error |-> error,
     commands |-> IF pc = "failed" THEN <<>> ELSE PlainList(commands)]

\* the caller draws the second text, on the same canvas
ParseAgain ==
    /\ pc \in {"drawn", "failed"}
    /\ input.again
    /\ ~first.done
    /\ first' = Ended
    /\ path' = input.twin
    /\ stream' = NoStream
    /\ commands' = <<>>
    /\ local' = <<>>
    /\ grammar' = Null
    /\ dispatched' = <<>>
    /\ pc' = "Parse"
    /\ error' = NoError
    /\ context' = <<"beginPath">>
    /\ UNCHANGED <<rev, input, scanned, canvas, advanced>>

OtherRevision(r) == IF r = "module" THEN "class" ELSE "module"

\* the caller hands the same text to the other revision's Parse
ParseOther ==
    /\ pc \in {"drawn", "failed"}
    /\ input.both
    /\ ~first.done
    /\ first' = Ended
    /\ rev' = OtherRevision(rev)
    /\ stream' = NoStream
    /\ commands' = <<>>
    /\ local' = <<>>
    /\ grammar' = Null
    /\ dispatched' = <<>>
    /\ pc' = "Parse"
    /\ error' = NoError
    /\ context' = <<"beginPath">>
    /\ UNCHANGED <<input, path, scanned, canvas, advanced>>

InitCalls == Called(CallInputs)

NextCalls ==
    \/ ParseEnter
    \/ ParseInitial
    \/ ParseSecondary
    \/ GrammarGroup
    \/ GrammarReturn
    \/ ParseAdvance
    \/ drawPath
    \/ clearCanvas
    \/ ParseAgain
    \/ ParseOther

SpecCalls == InitCalls /\ [][NextCalls]_vars

-----------------------------------------------------------------------------
(* The number scanner alone: readNumber called on a stream over a text.     *)

\* a sign, a digit, the decimal point, the exponent letter, anything else
ScanChars == {"-", "1", ".", "E", "X"}

ScanInputs ==
    { MakeInput("scan", text, "-", <<>>, <<>>, <<>>, <<>>) : text \in UpTo(MaxScan, ScanChars) }

InitScan ==
    /\ rev \in Revisions
    /\ input \in ScanInputs
    /\ path = input.text
    /\ stream = TextStream(IF rev = "class" THEN "computed" ELSE "cached", input.text)
    /\ commands = <<>>
    /\ local = <<>>
    /\ grammar = Null
    /\ dispatched = <<>>
    /\ pc = "readNumber"
    /\ error = NoError
    /\ context = <<>>
    /\ first = NoCall
    /\ scanned = NotScanned
    /\ canvas = NewCanvas
    /\ advanced = NotAdvanced

\* readNumber(stream) ended as r, numStr being r.v
ReadNumberEnded(r) ==
    /\ stream' = r.s
    /\ error' = r.err
    /\ IF r.err # NoError
       THEN pc' = "failed" /\ UNCHANGED scanned
       ELSE pc' = "scanned" /\ scanned' = [text |-> r.v, value |-> Number(r.v)]

ScanNumber ==
    /\ pc = "readNumber"
    /\ ReadNumberEnded(readNumberText(stream))
    /\ UNCHANGED <<rev, input, path, commands, local, grammar, dispatched, context, first,
                   canvas, advanced>>

NextScan == ScanNumber

SpecScan == InitScan /\ [][NextScan]_vars

-----------------------------------------------------------------------------
(* The cursor alone: a stream over a text that is not empty, on which       *)
(* MoveNext is called any number of times and then skipArgumentSeparator.   *)

\* a space, a tab, the comma, anything else
CursorChars == {" ", "\t", ",", "X"}

CursorInputs ==
    { MakeInput("cursor", text, "-", <<>>, <<>>, <<>>, <<>>) :
        text \in FromOneUpTo(MaxSource, CursorChars) }

InitCursor ==
    /\ rev \in Revisions
    /\ input \in CursorInputs
    /\ path = input.text
    /\ stream = TextStream(IF rev = "class" THEN "computed" ELSE "cached", input.text)
    /\ commands = <<>>
    /\ local = <<>>
    /\ grammar = Null
    /\ dispatched = <<>>
    /\ pc = "cursor"
    /\ error = NoError
    /\ context = <<>>
    /\ first = NoCall
    /\ scanned = NotScanned
    /\ canvas = NewCanvas
    /\ advanced = NotAdvanced

\* stream.MoveNext()
Advance ==
    /\ pc = "cursor"
    /\ stream.position < Len(stream.source) + MaxPast
    /\ stream' = MoveNext(stream)
    /\ advanced' = [count |-> advanced.count + 1, result |-> MoveNextResult(stream)]
    /\ UNCHANGED <<rev, input, path, commands, local, grammar, dispatched, pc, error,
                   context, first, scanned, canvas>>

\* skipArgumentSeparator(stream)
SkipSeparator ==
    /\ pc = "cursor"
    /\ stream' = skipArgumentSeparator(stream)
    /\ pc' = "skipped"
    /\ UNCHANGED <<rev, input, path, commands, local, grammar, dispatched, error,
                   context, first, scanned, canvas, advanced>>

NextCursor ==
    \/ Advance
    \/ SkipSeparator

SpecCursor == InitCursor /\ [][NextCursor]_vars

-----------------------------------------------------------------------------
(* Properties.                                                              *)

Finished == pc \in {"returned", "failed"}

\* the normalised text after its leading whitespace
RECURSIVE DropWhitespace(_)
DropWhitespace(str) ==
    IF str # <<>> /\ Head(str) \in _wsChars THEN DropWhitespace(Tail(str)) ELSE str

FirstToken(p) ==
    IF DropWhitespace(toUpperCase(p)) = <<>> THEN Null ELSE Head(DropWhitespace(toUpperCase(p)))

IsPrefix(a, b) == Len(a) <= Len(b) /\ SubSeq(b, 1, Len(a)) = a

\* the argument text of an earlier instruction ends before a later one's begins
InSourceOrder(cmds) ==
    \A i, j \in 1..Len(cmds) : i < j => cmds[i].to <= cmds[j].from

(* C1: Parse finishes after finitely many steps on every input.  The       *)
(* cursor's position is bounded by the length of the source and every step  *)
(* of the driver moves on, so the parse finishes exactly when no iteration  *)
(* of a repeating grammar's loop leaves the cursor where it was (the loop   *)
(* is deterministic: an iteration that consumes nothing is followed by the  *)
(* same iteration, for ever).                                               *)
C1_ParseFinishes ==
    [][(pc = "loop" /\ pc' = "loop") => stream'.position > stream.position]_vars

(* C2: in the body phase, once a grammar has returned with the cursor on a *)
(* character that is neither end-of-input nor a command letter, the next    *)
(* thing Parse does is fail with InvalidCommand; it never skips it.         *)
C2_UnexpectedCharacterIsInvalidCommand ==
    [][(pc \in {"body", "advance"} /\ NotNull(Current(stream))
           /\ ~isCommandCharacter(Current(stream)))
         => (pc' = "failed" /\ error' = "InvalidCommand")]_vars

(* C3: a non-empty input whose first character after leading whitespace is *)
(* not F or M fails with InvalidCommand, with no grammar dispatched and no  *)
(* instruction produced.                                                    *)
C3_InitialCommandMustBeFOrM ==
    (path # <<>> /\ FirstToken(path) \notin {Null, "F", "M"} /\ pc \notin {"Parse", "initial"})
        => (pc = "failed" /\ error = "InvalidCommand" /\ commands = <<>> /\ dispatched = <<>>)

C3_Witness ==
    pc = "failed" /\ error = "InvalidCommand" /\ path = <<" ", "L", "1">> /\ dispatched = <<>>

(* C4: Parse("") returns the empty list, with no error, no stream          *)
(* constructed and neither phase entered.                                   *)
C4_EmptyPathReturnsEmptyList ==
    (path = <<>> /\ pc # "Parse")
        => (pc = "returned" /\ commands = <<>> /\ error = NoError
            /\ stream = NoStream /\ dispatched = <<>>)

C4_Witness == path = <<>> /\ pc = "returned"

(* C5: in every state of a parse, a SetFillRule instruction is at index 0  *)
(* of the instruction list (index 1 here) and nowhere else, and only when   *)
(* the first token of the source is F.                                      *)
C5_FillRuleOnlyFirst ==
    /\ \A i \in 1..Len(commands) :
           commands[i].op = "SetFillRule" => (i = 1 /\ FirstToken(path) = "F")
    /\ \A i \in 1..Len(local) : local[i].op # "SetFillRule"

\* a parse that got past a second F with its SetFillRule in front
C5_Witness ==
    /\ pc = "returned"
    /\ Len(commands) = 3
    /\ commands[1].op = "SetFillRule"
    /\ \E i \in 2..Len(stream.source) : stream.source[i] = "F" /\ i <= stream.position

(* C6: the instruction list only grows at its end, and its order is the    *)
(* order of the source: an earlier instruction's argument text ends before  *)
(* a later one's begins.                                                    *)
C6_InstructionsInSourceOrder ==
    [][IsPrefix(commands, commands') /\ InSourceOrder(commands' \o local')]_vars

C6_Witness ==
    /\ pc = "returned"
    /\ Len(commands) = 4
    /\ commands[2].op = "CubicCurveTo"
    /\ commands[3].op = "CubicCurveTo"
    /\ commands[2].to <= commands[3].from
    /\ commands[2].from < commands[2].to

(* C7: when the first token is F, the number written after it decides:     *)
(* 0 gives SetFillRule(EvenOdd), 1 gives SetFillRule(NonZero), any other    *)
(* value makes Parse fail with InvalidFillRuleValue.                        *)
C7_FillRuleValue ==
    (input.family = "fill" /\ pc \notin {"Parse", "initial"})
        => IF input.expected[1] = Whole(0)
           THEN /\ Len(commands) >= 1
                /\ Plain(commands[1]) = Instruction("SetFillRule", "EvenOdd", <<>>, FALSE)
                /\ error # "InvalidFillRuleValue"
           ELSE IF input.expected[1] = Whole(1)
           THEN /\ Len(commands) >= 1
                /\ Plain(commands[1]) = Instruction("SetFillRule", "NonZero", <<>>, FALSE)
                /\ error # "InvalidFillRuleValue"
           ELSE pc = "failed" /\ error = "InvalidFillRuleValue" /\ commands = <<>>

\* F0.1e1 selects the non-zero rule
C7_Witness ==
    /\ input.family = "fill"
    /\ pc = "returned"
    /\ SubSeq(path, 1, 6) = <<"F", "0", ".", "1", "e", "1">>
    /\ Plain(commands[1]) = Instruction("SetFillRule", "NonZero", <<>>, FALSE)

(* C8: one L followed by n >= 1 points separated by whitespace gives       *)
(* exactly n LineTo instructions, the i-th with the i-th point, and the     *)
(* loop ends at the next command letter or at end-of-input.                 *)
C8_LineToRepeats ==
    (input.family = "groups" /\ input.letter = "L" /\ input.sepOut \in WhitespaceSeps)
        => /\ Len(local) <= Len(input.expected)
           /\ Finished => (pc = "returned" /\ PlainList(commands) = input.expected)

C8_Witness ==
    /\ input.family = "groups" /\ input.letter = "L" /\ input.sepOut \in WhitespaceSeps
    /\ pc = "returned"
    /\ Len(commands) = 5
    /\ \A i \in 2..4 : commands[i].op = "LineTo"
    /\ commands[2].args # commands[3].args
    /\ commands[5].op = "ClosePath"

(* C9: the argument separator is accepted between the groups of every      *)
(* repeating command, L included: with a comma between two points the       *)
(* instructions are the ones the points denote.                             *)
C9_SeparatorBetweenGroups ==
    (input.family = "groups" /\ Finished)
        => (pc = "returned" /\ PlainList(commands) = input.expected)

(* C10: C followed by k >= 1 groups of three points, and Q followed by     *)
(* k >= 1 groups of two, give exactly k CubicCurveTo (QuadraticCurveTo)     *)
(* instructions, the i-th built from the i-th group's points in the order   *)
(* written.                                                                 *)
C10_CurveGroups ==
    (input.family = "groups" /\ input.letter \in {"C", "Q"})
        => /\ Len(local) <= Len(input.expected)
           /\ Finished => (pc = "returned" /\ PlainList(commands) = input.expected)

C10_Witness ==
    /\ input.family = "groups" /\ input.letter = "C"
    /\ input.sepIn = <<",">> /\ input.sepOut = <<"\t", ",", " ">>
    /\ pc = "returned"
    /\ Len(commands) = 3
    /\ commands[2].op = "CubicCurveTo" /\ commands[3].op = "CubicCurveTo"
    /\ commands[2].args # commands[3].args

(* C11: for A, each argument group of six numbers (centre x, centre y,     *)
(* radius, startAngle, endAngle, direction flag) gives exactly one ArcTo    *)
(* with those values in that order, counter-clockwise exactly when the      *)
(* flag equals 1.                                                           *)
C11_ArcGroups ==
    (input.family = "arc")
        => /\ Len(local) <= Len(input.expected)
           /\ pc # "failed"
           /\ pc \in {"returned", "drawn"} => PlainList(commands) = input.expected

C11_Witness ==
    /\ input.family = "arc"
    /\ pc = "returned"
    /\ Len(commands) = 3
    /\ commands[2].op = "ArcTo" /\ commands[2].ccw
    /\ commands[3].op = "ArcTo" /\ ~commands[3].ccw
    /\ commands[3].args[5] = Whole(1) /\ commands[2].args[4] = Whole(1)

(* C11 as it was stated: each argument group of seven numbers gives        *)
(* exactly one ArcTo.                                                       *)
C11_ArcGroupOfSeven ==
    (input.family = "arc7" /\ pc \in {"returned", "drawn", "failed"})
        => (pc # "failed" /\ Len(commands) = Len(input.expected))

\* the first character after the cursor's that is not whitespace
FollowingToken(s) ==
    IF DropWhitespace(SubSeq(s.source, s.position + 2, Len(s.source))) = <<>> THEN Null
    ELSE Head(DropWhitespace(SubSeq(s.source, s.position + 2, Len(s.source))))

\* the number of instructions of a kind in a list
Count(cmds, op) == Cardinality({ i \in 1..Len(cmds) : cmds[i].op = op })

\* the number of times a character is written in a text
Occurrences(str, c) == Cardinality({ i \in 1..Len(str) : str[i] = c })

AtLastCharacter(s) == s.position = Len(s.source) - 1

(* C12: a repeating letter (L, C, Q, A) followed, after optional            *)
(* whitespace, by a command letter: its grammar enters its loop with the    *)
(* cursor on that letter, no instruction and no error; the loop ends at     *)
(* once and adds nothing; the driver goes on without moving the cursor and  *)
(* dispatches the letter.                                                   *)
C12_EmptyRepeatingCommand ==
    [][/\ (pc = "body" /\ Current(stream) \in {"L", "C", "Q", "A"}
             /\ FollowingToken(stream) \in {"M", "L", "C", "Q", "A", "Z"})
           => (pc' = "loop" /\ local' = <<>> /\ error' = NoError /\ commands' = commands
               /\ Current(stream') = FollowingToken(stream))
       /\ (pc = "loop" /\ local = <<>> /\ Current(stream) \in {"M", "L", "C", "Q", "A", "Z"})
           => (pc' = "advance" /\ commands' = commands /\ stream' = stream /\ error' = NoError)
       /\ (pc = "advance" /\ Current(stream) \in {"M", "L", "C", "Q", "A", "Z"})
           => (pc' = "body" /\ stream' = stream /\ commands' = commands)
       /\ (pc = "body" /\ Current(stream) \in {"M", "L", "C", "Q", "A", "Z"})
           => dispatched' = Append(dispatched, <<"body", Current(stream)>>)]_vars

\* M0,0L Z
C12_Witness ==
    /\ pc = "returned"
    /\ path = <<"M", "0", ",", "0", "L", " ", "Z">>
    /\ PlainList(commands) = <<Instruction("MoveTo", "-", <<Whole(0), Whole(0)>>, FALSE),
                               Instruction("ClosePath", "-", <<>>, FALSE)>>
    /\ dispatched = <<<<"initial", "M">>, <<"body", "L">>, <<"body", "Z">>>>

(* C13: when F or M is dispatched in the initial phase, or M, L, C, Q or A  *)
(* in the body phase, and the letter is the last character of the           *)
(* normalised input, that step fails with UnexpectedEndOfStream.            *)
C13_LetterAtEndOfInput ==
    [][/\ (pc = "initial" /\ (DropWhitespace(stream.source) = <<"F">>
                              \/ DropWhitespace(stream.source) = <<"M">>))
           => (pc' = "failed" /\ error' = "UnexpectedEndOfStream")
       /\ (pc = "body" /\ Current(stream) \in {"M", "L", "C", "Q", "A"}
             /\ AtLastCharacter(stream))
           => (pc' = "failed" /\ error' = "UnexpectedEndOfStream")]_vars

\* M0,0L1,1Q
C13_Witness ==
    /\ pc = "failed"
    /\ error = "UnexpectedEndOfStream"
    /\ path = <<"M", "0", ",", "0", "L", "1", ",", "1", "Q">>
    /\ Len(commands) = 2
    /\ dispatched[Len(dispatched)] = <<"body", "Q">>

(* C14: a Z dispatched in the body phase as the last character of the      *)
(* input raises no error and appends ClosePath, and the driver's next step  *)
(* returns the list as it is; every dispatched Z appends exactly one        *)
(* ClosePath, and nothing else appends one.                                 *)
C14_ClosePathAtEndOfInput ==
    [][/\ (pc = "body" /\ Current(stream) = "Z" /\ AtLastCharacter(stream))
           => (pc' = "advance" /\ error' = NoError /\ ~NotNull(Current(stream'))
               /\ PlainList(commands')
                      = PlainList(commands) \o <<Instruction("ClosePath", "-", <<>>, FALSE)>>)
       /\ (pc = "advance" /\ ~NotNull(Current(stream)))
           => (pc' = "returned" /\ commands' = commands)
       /\ (pc = "body" /\ Current(stream) = "Z")
           => (error' = NoError
               /\ Count(commands', "ClosePath") = Count(commands, "ClosePath") + 1)
       /\ (~(pc = "body" /\ Current(stream) = "Z") /\ pc' # "Parse")
           => Count(commands', "ClosePath") = Count(commands, "ClosePath")]_vars

\* M0,0ZZ
C14_Witness ==
    /\ pc = "returned"
    /\ path = <<"M", "0", ",", "0", "Z", "Z">>
    /\ Len(commands) = 3
    /\ commands[2].op = "ClosePath" /\ commands[3].op = "ClosePath"
    /\ dispatched = <<<<"initial", "M">>, <<"body", "Z">>, <<"body", "Z">>>>

(* C15: a number with a fractional part, then E, then after an optional     *)
(* minus sign a character that is not a digit, or the end of the input:     *)
(* Parse fails with InvalidNumber, whichever command's argument the number  *)
(* is.  (Every step of these parses is followed by another until one        *)
(* fails: no loop collects more than the one group written before the       *)
(* number.)                                                                 *)
C15_ExponentWithoutDigits ==
    (input.family = "exponent")
        => /\ pc \notin {"returned", "drawn"}
           /\ error \in {NoError, "InvalidNumber"}
           /\ pc = "failed" => error = "InvalidNumber"
           /\ Len(local) <= 1

\* the radius of a second group of A
C15_Witness ==
    /\ input.family = "exponent" /\ input.letter = "A"
    /\ pc = "failed" /\ error = "InvalidNumber"
    /\ grammar = "A" /\ Len(local) = 1
    /\ stream.source[stream.position] = "-"

(* C19: M never repeats.  A dispatched M that does not fail appends exactly *)
(* one MoveTo; nothing else changes the number of MoveTo instructions; only *)
(* the grammar of L collects LineTo instructions; and in every successful   *)
(* parse there are as many MoveTo instructions as the normalised input has  *)
(* letters M.                                                               *)
C19_MoveToNeverRepeats ==
    [][/\ (pc = "initial" /\ Current(ResolveInitialStream(rev, stream)) = "M" /\ pc' # "failed")
           => (Len(commands') = 1 /\ commands'[1].op = "MoveTo")
       /\ (pc = "body" /\ Current(stream) = "M" /\ pc' # "failed")
           => (Len(commands') = Len(commands) + 1 /\ commands'[Len(commands')].op = "MoveTo"
               /\ IsPrefix(commands, commands'))
       /\ (~(pc \in {"initial", "body"} /\ Current(ResolveInitialStream(rev, stream)) = "M")
             /\ pc' # "Parse")
           => Count(commands', "MoveTo") = Count(commands, "MoveTo")
       /\ Count(local', "MoveTo") = 0
       /\ (Count(local', "LineTo") > 0 => grammar' = "L")
       /\ (pc' = "returned"
             => Count(commands', "MoveTo") = Occurrences(stream'.source, "M"))]_vars

\* M0,0M1,1 2: the 2 after the second M's point is stepped over
C19_Witness ==
    /\ pc = "returned"
    /\ path = <<"M", "0", ",", "0", "M", "1", ",", "1", " ", "2">>
    /\ PlainList(commands) = <<Instruction("MoveTo", "-", <<Whole(0), Whole(0)>>, FALSE),
                               Instruction("MoveTo", "-", <<Whole(1), Whole(1)>>, FALSE)>>

\* the number grammar of section 4.2: '-'? digit* ('.' digit+ ('E' '-'? digit+)?)?
DigitChars == { Digits[i] : i \in 1..Len(Digits) }
IsDigits(str) == \A i \in 1..Len(str) : str[i] \in DigitChars
IsOneOrMoreDigits(str) == str # <<>> /\ IsDigits(str)

MatchesExponent(str) ==
    \/ str = <<>>
    \/ /\ str[1] = "E"
       /\ \/ IsOneOrMoreDigits(Tail(str))
          \/ Len(str) >= 2 /\ str[2] = "-" /\ IsOneOrMoreDigits(SubSeq(str, 3, Len(str)))

MatchesFraction(str) ==
    \/ str = <<>>
    \/ /\ str[1] = "."
       /\ \E k \in 2..Len(str) :
              /\ IsOneOrMoreDigits(SubSeq(str, 2, k))
              /\ MatchesExponent(SubSeq(str, k + 1, Len(str)))

MatchesUnsigned(str) ==
    \E k \in 0..Len(str) :
        IsDigits(SubSeq(str, 1, k)) /\ MatchesFraction(SubSeq(str, k + 1, Len(str)))

MatchesNumber(str) ==
    \/ MatchesUnsigned(str)
    \/ str # <<>> /\ str[1] = "-" /\ MatchesUnsigned(Tail(str))

LongestMatch(str) ==
    SubSeq(str, 1, CHOOSE k \in 0..Len(str) :
                       /\ MatchesNumber(SubSeq(str, 1, k))
                       /\ \A j \in (k + 1)..Len(str) : ~MatchesNumber(SubSeq(str, 1, j)))

(* C16: when readNumber returns, the text it has consumed and handed to the *)
(* conversion is the longest prefix of the text at the cursor that matches  *)
(* the number grammar, and the cursor is on the first character after it.   *)
C16_ScansLongestNumber ==
    (pc = "scanned")
        => /\ scanned.text = LongestMatch(stream.source)
           /\ stream.position = Len(scanned.text)
           /\ scanned.text = SubSeq(stream.source, 1, stream.position)

\* the caller's second call has ended
SecondCallEnded == first.done /\ pc \in {"drawn", "failed"}

\* the call that has ended ended as the caller's first call did
SameOutcome ==
    /\ pc = first.outcome
    /\ error = first.error
    /\ pc = "drawn" => PlainList(commands) = first.commands

(* C17: Parse of a text and Parse of the text with every letter in its      *)
(* other case either both fail with the same kind of error or both return   *)
(* equal instruction lists.                                                 *)
C17_CaseInsensitive == (input.family = "case" /\ SecondCallEnded) => SameOutcome

\* m0,0l1,1 after M0,0L1,1
C17_Witness ==
    /\ input.family = "case" /\ SecondCallEnded
    /\ input.text = <<"M", "0", ",", "0", "L", "1", ",", "1">>
    /\ path = <<"m", "0", ",", "0", "l", "1", ",", "1">>
    /\ pc = "drawn"
    /\ Len(commands) = 2 /\ commands[2].op = "LineTo"

(* C18: an error ends the call: Parse never goes on to return after it, a   *)
(* call that has failed hands no instruction to its caller, and drawPath    *)
(* makes no call on the context after its beginPath: the context changes    *)
(* only when Parse has returned without an error.                           *)
C18_ErrorsAreFatal ==
    [][/\ (error' # NoError => (pc' = "failed" /\ context' = <<"beginPath">>))
       /\ (pc = "failed" => pc' \in {"failed", "Parse"})
       /\ (pc = "failed" /\ pc' = "Parse")
           => (first'.outcome = "failed" /\ first'.commands = <<>> /\ first'.error = error)
       /\ (context' # context /\ pc' # "Parse") => (pc = "returned" /\ error = NoError)]_vars

\* M0,0L1,1M: a MoveTo and a LineTo collected, then the M at the end
C18_Witness ==
    /\ pc = "failed" /\ error = "UnexpectedEndOfStream"
    /\ path = <<"M", "0", ",", "0", "L", "1", ",", "1", "M">>
    /\ Len(commands) = 2
    /\ context = <<"beginPath">>

(* C20: for a text s that begins with F or M and a text w of spaces and     *)
(* tabs, Parse(w + s) ends as Parse(s) does: the same instructions, or the  *)
(* same kind of error.                                                      *)
C20_LeadingWhitespace == (input.family = "lead" /\ SecondCallEnded) => SameOutcome

C20_Witness ==
    /\ input.family = "lead" /\ SecondCallEnded
    /\ rev = "class"
    /\ input.text[1] = "\t" /\ input.text[2] = " "
    /\ pc = "drawn"
    /\ Len(commands) = 3 /\ commands[1].op = "SetFillRule"

(* C21: every grammar that takes arguments, F included, skips whitespace    *)
(* between its letter and its first argument: a text with spaces or tabs    *)
(* written there ends as the text without them does, with the same          *)
(* instructions or the same kind of error.                                  *)
C21_WhitespaceAfterLetter == (input.family = "gap" /\ SecondCallEnded) => SameOutcome

\* the fill rule a path selects: non-zero after F1, even-odd after F0 and without F
OwnFillRule(p) ==
    IF Len(p) >= 2 /\ toUpperCaseChar(p[1]) = "F" /\ p[2] = "1" THEN "nonzero" ELSE "evenodd"

(* C22: across successive drawPath calls on one canvas, each call fills     *)
(* with the fill rule of its own path: non-zero when the path starts with   *)
(* F1, even-odd when it starts with F0 or has no F, whatever an earlier     *)
(* call selected and whether or not the canvas was cleared in between.      *)
C22_FillRuleOfOwnPath ==
    (input.family = "fills" /\ pc = "drawn") => canvas.fill = OwnFillRule(path)

IsWhitespace(str) == \A i \in 1..Len(str) : str[i] \in _wsChars

\* the separator of section 4.2: whitespace*, then at most one comma, then whitespace*
MatchesSeparator(str) ==
    \/ IsWhitespace(str)
    \/ \E k \in 1..Len(str) :
           /\ IsWhitespace(SubSeq(str, 1, k - 1))
           /\ str[k] = ","
           /\ IsWhitespace(SubSeq(str, k + 1, Len(str)))

LongestSeparator(str) ==
    SubSeq(str, 1, CHOOSE k \in 0..Len(str) :
                       /\ MatchesSeparator(SubSeq(str, 1, k))
                       /\ \A j \in (k + 1)..Len(str) : ~MatchesSeparator(SubSeq(str, 1, j)))

\* the text from the cursor to the end of the source
Remaining(s) ==
    IF s.position >= Len(s.source) THEN <<>>
    ELSE SubSeq(s.source, s.position + 1, Len(s.source))

(* C23: skipArgumentSeparator consumes the longest text at the cursor made  *)
(* of spaces and tabs, then at most one comma, then spaces and tabs, and    *)
(* nothing else: a second comma and every other character stay, at the end  *)
(* of the input the stream is left as it is, and no error is raised.        *)
C23_ArgumentSeparator ==
    [][pc' = "skipped"
         => /\ error' = NoError
            /\ stream'.source = stream.source
            /\ stream'.position = stream.position + Len(LongestSeparator(Remaining(stream)))
            /\ (stream.position >= Len(stream.source) => stream' = stream)
            /\ (Remaining(stream') # <<>> => Head(Remaining(stream')) \notin _wsChars)]_vars

\* from " ,\t,X" the cursor stops on the second comma
C23_Witness ==
    /\ pc = "skipped"
    /\ stream.source = <<" ", ",", "\t", ",">>
    /\ advanced.count = 0
    /\ stream.position = 3
    /\ Current(stream) = ","

\* what section 4.1 says of current() at a position
CursorContract ==
    /\ stream.position = advanced.count
    /\ Current(stream) = IF stream.position < Len(stream.source)
                         THEN stream.source[stream.position + 1]
                         ELSE Null

(* C24: over a source that is not empty, the position starts at 0 and       *)
(* grows by exactly 1 with every MoveNext; Current is the source character  *)
(* at the position while the position is less than the length, and null     *)
(* from then on; MoveNext returns true exactly when the new position is     *)
(* less than the length; once Current is null it stays null and MoveNext    *)
(* returns false.                                                           *)
C24_CursorContract ==
    [][(pc = "cursor" /\ pc' = "cursor")
         => /\ CursorContract
            /\ CursorContract'
            /\ stream'.position = stream.position + 1
            /\ stream'.source = stream.source
            /\ advanced'.result = (stream'.position < Len(stream'.source))
            /\ (Current(stream) = Null => (Current(stream') = Null /\ ~advanced'.result))]_vars

\* the cached stream, two calls of MoveNext after the one that reached the end
C24_Witness ==
    /\ pc = "cursor"
    /\ stream.kind = "cached"
    /\ Len(stream.source) = 3
    /\ advanced.count = 5
    /\ stream.position = 5
    /\ ~advanced.result
    /\ Current(stream) = Null

(* C25: a number that is not written is read as 0, with nothing consumed    *)
(* and no error.  A group of C, Q or A that stops before its last number,   *)
(* at the end of the input or at a command letter, gives one instruction    *)
(* with the numbers written and 0 for the others (for A, not counter-       *)
(* clockwise), whose text ends where the group stops; F with no number      *)
(* gives SetFillRule(EvenOdd), with no character consumed for the number.   *)
C25_MissingNumberIsZero ==
    (input.family = "short")
        => /\ pc # "failed"
           /\ error = NoError
           /\ Len(local) <= 1
           /\ (pc \in {"returned", "drawn"})
                => /\ PlainList(commands) = input.expected
                   /\ (input.letter = "F")
                        => (commands[1].from = 1 /\ commands[1].to = 1 + Len(input.lead))
                   /\ (input.letter # "F")
                        => commands[2].to = Len(stream.source) - (Len(input.expected) - 2)

\* M0,0C1,2
C25_Witness ==
    /\ input.family = "short"
    /\ pc = "returned"
    /\ path = <<"M", "0", ",", "0", "C", "1", ",", "2">>
    /\ Len(commands) = 2
    /\ Plain(commands[2]) = Instruction("CubicCurveTo", "-",
                                        <<Whole(1), Whole(2), Whole(0), Whole(0), Whole(0),
                                          Whole(0)>>, FALSE)
    /\ commands[2].to = 8

(* C26: the body phase runs at least once after the initial command.  A     *)
(* text that is one initial command with its arguments and nothing after    *)
(* them fails with InvalidCommand in the body phase, its one instruction    *)
(* collected and nothing dispatched but the initial command; and every      *)
(* parse of a text that is not empty that returns has dispatched a command  *)
(* in the body phase.                                                       *)
C26_BodyPhaseRunsOnce ==
    /\ (input.family = "single" /\ pc \notin {"Parse", "initial", "body"})
           => /\ pc = "failed"
              /\ error = "InvalidCommand"
              /\ Len(commands) = 1
              /\ dispatched = <<<<"initial", input.letter>>>>
    /\ (path # <<>> /\ pc \in {"returned", "drawn"})
           => \E i \in 1..Len(dispatched) : dispatched[i][1] = "body"

\* M0,0
C26_Witness ==
    /\ input.family = "single"
    /\ path = <<"M", "0", ",", "0">>
    /\ pc = "failed"
    /\ error = "InvalidCommand"
    /\ Len(commands) = 1 /\ commands[1].op = "MoveTo"
    /\ ~NotNull(Current(stream))

(* C27: only the empty string short-circuits.  A text of spaces and tabs    *)
(* gets past the emptiness test, a stream is constructed for it, and the    *)
(* initial phase fails with InvalidCommand, nothing dispatched and nothing  *)
(* collected; and a call that returns an empty list, or returns without     *)
(* having constructed a stream, was given the empty string.                 *)
C27_OnlyEmptyStringShortCircuits ==
    /\ (input.family = "blank" /\ pc # "Parse") => stream # NoStream
    /\ (input.family = "blank" /\ pc \notin {"Parse", "initial"})
           => /\ pc = "failed"
              /\ error = "InvalidCommand"
              /\ commands = <<>>
              /\ dispatched = <<>>
    /\ (pc \in {"returned", "drawn"} /\ (commands = <<>> \/ stream = NoStream))
           => path = <<>>

\* the module revision on a space and a tab: the stream is over the empty string
C27_Witness ==
    /\ input.family = "blank"
    /\ rev = "module"
    /\ path = <<" ", "\t">>
    /\ stream.source = <<>>
    /\ Current(stream) = Undefined
    /\ pc = "failed"
    /\ error = "InvalidCommand"

\* the text ends with a space or a tab
EndsWithWhitespace(str) == str # <<>> /\ str[Len(str)] \in _wsChars

=============================================================================
